---- MODULE Spec2Model ----
(***************************************************************************)
(* A model of orm_json (src/orm_json/__init__.py): the Converter class,    *)
(* its type-converter registry, the module-level DEFAULT_CONVERTER, the    *)
(* attachment hook add_json_converter and the key transform to_camelcase.  *)
(*                                                                         *)
(* Python text is a sequence of one-character strings, so that the key     *)
(* transform and the string conversions are computed character by          *)
(* character.  A Python value is a record [type, n, s]: its exact runtime  *)
(* type, its numeric payload and its text payload.  A call's outcome is a  *)
(* record [kind, exc, value, applied]: kind is "return" or "raise".        *)
(***************************************************************************)
EXTENDS Integers, Sequences, FiniteSets, TLC

VARIABLES dicts, converters, bases, nadds, last

vars == <<dicts, converters, bases, nadds, last>>

----------------------------------------------------------------------------
(* Bounds of the model.                                                    *)

\* Longest generated input of to_camelcase.
MaxLen == 3
\* Most add_type_converter calls in one behaviour.
MaxAdds == 2
\* Most Converter instances alive in one behaviour (DEFAULT_CONVERTER included).
MaxConverters == 2

----------------------------------------------------------------------------
(* Text.                                                                   *)

Lower == <<"a","b","c","d","e","f","g","h","i","j","k","l","m",
           "n","o","p","q","r","s","t","u","v","w","x","y","z">>

Upper == <<"A","B","C","D","E","F","G","H","I","J","K","L","M",
           "N","O","P","Q","R","S","T","U","V","W","X","Y","Z">>

Digits == <<"0","1","2","3","4","5","6","7","8","9">>

IsLower(c) == \E i \in 1..Len(Lower) : Lower[i] = c

\* str.upper() on one character matched by [a-z].
ToUpper(c) == Upper[CHOOSE i \in 1..Len(Lower) : Lower[i] = c]

\* str.startswith
StartsWith(s, prefix) ==
  /\ Len(s) >= Len(prefix)
  /\ SubSeq(s, 1, Len(prefix)) = prefix

RECURSIVE NatToStr(_)
NatToStr(n) ==
  IF n < 10 THEN <<Digits[n + 1]>>
  ELSE NatToStr(n \div 10) \o <<Digits[(n % 10) + 1]>>

\* str(int)
IntToStr(i) == IF i < 0 THEN <<"-">> \o NatToStr(0 - i) ELSE NatToStr(i)

\* '%0<width>d' % n, for n >= 0
RECURSIVE ZeroPad(_, _)
ZeroPad(s, width) == IF Len(s) >= width THEN s ELSE ZeroPad(<<"0">> \o s, width)

----------------------------------------------------------------------------
(* to_camelcase: re.sub('_([a-z])', _convert, varname).  The scan goes     *)
(* left to right; a match consumes the underscore and the letter, and the  *)
(* replacement is the letter in upper case.                                *)

RECURSIVE ReSubFrom(_, _)
ReSubFrom(varname, i) ==
  IF i > Len(varname) THEN <<>>
  ELSE IF /\ varname[i] = "_"
          /\ i + 1 <= Len(varname)
          /\ IsLower(varname[i + 1])
       THEN <<ToUpper(varname[i + 1])>> \o ReSubFrom(varname, i + 2)
       ELSE <<varname[i]>> \o ReSubFrom(varname, i + 1)

\* A transform that leaves a leading underscore alone (a plausible slip:
\* the pattern anchored behind a first character).
to_camelcase_keep_leading(varname) ==
  IF Len(varname) = 0 THEN <<>>
  ELSE <<varname[1]>> \o ReSubFrom(SubSeq(varname, 2, Len(varname)), 1)

to_camelcase(varname) == ReSubFrom(varname, 1)

----------------------------------------------------------------------------
(* Python values and types.                                                *)

Mk(type, n, s) == [type |-> type, n |-> n, s |-> s]

None == Mk("NoneType", <<>>, <<>>)
PyInt(i) == Mk("int", <<i>>, <<>>)
PyBool(b) == Mk("bool", <<IF b THEN 1 ELSE 0>>, <<>>)
\* a float with one decimal digit: whole.tenth
PyFloat(whole, tenth) == Mk("float", <<whole, tenth>>, <<>>)
PyStr(chars) == Mk("str", <<>>, chars)
PyUnicode(chars) == Mk("unicode", <<>>, chars)
PyList == Mk("list", <<>>, <<>>)
PyDict == Mk("dict", <<>>, <<>>)
PyDate(y, m, d) == Mk("date", <<y, m, d>>, <<>>)
PyDatetime(y, m, d, hh, mm, ss, us) == Mk("datetime", <<y, m, d, hh, mm, ss, us>>, <<>>)
\* decimal.Decimal('whole.tenth'): a number type outside JSON_SAFE_TYPES
PyDecimal(whole, tenth) == Mk("Decimal", <<whole, tenth>>, <<>>)
\* a plain object(), such as a mapper's bookkeeping attribute
PyObject == Mk("object", <<>>, <<>>)

\* The method resolution order of each runtime type, the type itself first.
MRO(t) ==
  CASE t = "bool"     -> <<"bool", "int", "object">>
    [] t = "str"      -> <<"str", "basestring", "object">>
    [] t = "unicode"  -> <<"unicode", "basestring", "object">>
    [] t = "datetime" -> <<"datetime", "date", "object">>
    [] t = "object"   -> <<"object">>
    [] OTHER          -> <<t, "object">>

IsSubclass(t, cls) == \E i \in 1..Len(MRO(t)) : MRO(t)[i] = cls

\* type(value)
TypeOf(value) == value.type

----------------------------------------------------------------------------
(* Outcomes of calls.                                                      *)

\* A call that returned `v`; `applied` names the registered converter that
\* produced it ("" when none was called).
Return(v) == [kind |-> "return", exc |-> "", value |-> v, applied |-> ""]

\* A call that raised the exception `exc`.
Raise(exc) == [kind |-> "raise", exc |-> exc, value |-> None, applied |-> ""]

----------------------------------------------------------------------------
(* Built-in conversions.                                                   *)

\* datetime.date.isoformat(): 'YYYY-MM-DD'
DateIso(n) ==
  ZeroPad(NatToStr(n[1]), 4) \o <<"-">> \o ZeroPad(NatToStr(n[2]), 2)
    \o <<"-">> \o ZeroPad(NatToStr(n[3]), 2)

\* The time part of datetime.datetime.isoformat(): 'HH:MM:SS[.ffffff]'
TimeIso(n) ==
  ZeroPad(NatToStr(n[4]), 2) \o <<":">> \o ZeroPad(NatToStr(n[5]), 2)
    \o <<":">> \o ZeroPad(NatToStr(n[6]), 2)
    \o (IF n[7] = 0 THEN <<>> ELSE <<".">> \o ZeroPad(NatToStr(n[7]), 6))

\* datetime.datetime.isoformat(sep): date, separator, time
DatetimeIso(n, sep) == DateIso(n) \o <<sep>> \o TimeIso(n)

\* The text str(value) of Python 2 yields for each modelled type.  The text
\* of a plain object carries its address and is abbreviated to <object>.
Str(value) ==
  CASE value.type = "NoneType" -> <<"N","o","n","e">>
    [] value.type = "int"      -> IntToStr(value.n[1])
    [] value.type = "bool"     ->
         IF value.n[1] = 1 THEN <<"T","r","u","e">> ELSE <<"F","a","l","s","e">>
    [] value.type \in {"float", "Decimal"} ->
         IntToStr(value.n[1]) \o <<".">> \o NatToStr(value.n[2])
    [] value.type \in {"str", "unicode"} -> value.s
    [] value.type = "list"     -> <<"[","]">>
    [] value.type = "dict"     -> <<"{","}">>
    [] value.type = "date"     -> DateIso(value.n)
    [] value.type = "datetime" -> DatetimeIso(value.n, " ")
    [] OTHER                   -> <<"<","o","b","j","e","c","t",">">>

\* The functions the model registers as type converters.  The first two are
\* the unbound methods the default converter registers; an unbound method
\* raises TypeError when its argument is no instance of its class.
Fns == {"date.isoformat", "datetime.isoformat", "str", "raiser"}

\* fn(value)
Call(fn, value) ==
  CASE fn = "date.isoformat" ->
         IF IsSubclass(value.type, "date")
         THEN Return(PyStr(DateIso(value.n))) ELSE Raise("TypeError")
    [] fn = "datetime.isoformat" ->
         IF IsSubclass(value.type, "datetime")
         THEN Return(PyStr(DatetimeIso(value.n, "T"))) ELSE Raise("TypeError")
    [] fn = "str"    -> Return(PyStr(Str(value)))
    [] fn = "raiser" -> Raise("ValueError")

\* JSON_SAFE_TYPES = set([type(None), list, dict, int, float, basestring])
JSON_SAFE_TYPES ==
  [container |-> "set",
   types |-> {"NoneType", "list", "dict", "int", "float", "basestring"}]

\* The built-in isinstance(value, classinfo): classinfo must be a class or a
\* tuple of classes; anything else (a set, a list) raises TypeError.
IsInstance(value, classinfo) ==
  IF classinfo.container \notin {"type", "tuple"}
  THEN Raise("TypeError")
  ELSE Return(PyBool(\E cls \in classinfo.types : IsSubclass(TypeOf(value), cls)))

\* The truth value of a Python bool.
Truth(value) == value.n[1] = 1

----------------------------------------------------------------------------
(* Dictionaries (type -> function, or key -> value) as TLA+ functions.     *)

EmptyDict == <<>>

\* d[k] = v
DictSet(d, k, v) == [x \in (DOMAIN d) \cup {k} |-> IF x = k THEN v ELSE d[x]]

\* d.update(other)
DictUpdate(d, other) ==
  [x \in (DOMAIN d) \cup (DOMAIN other) |-> IF x \in DOMAIN other THEN other[x] ELSE d[x]]

----------------------------------------------------------------------------
(* The heap.  dicts is the sequence of dict objects: each has the party    *)
(* that created it ("caller" or "converter") and its content.  converters  *)
(* is the sequence of Converter instances; a Converter's type_converters   *)
(* is a reference into dicts.  bases maps each declarative base class to   *)
(* the methods add_json_converter installed on it.                         *)

\* The runtime types the model registers converters for.
RegTypes == {"int", "date", "datetime"}

\* Key converters: the default, a constant function and one that raises.
KeyFns == {"to_camelcase", "const", "raiser"}

\* The declarative base classes add_json_converter is applied to.
Bases == {"Base"}

\* No type, no dict, no converter.
NoType == ""
NoRef == 0

\* self.type_converters of Converter `self`
RegistryOf(self) == dicts[converters[self].type_converters].map

\* settings.get(key, default)
SettingsGet(settings, key, default) ==
  IF key \in DOMAIN settings THEN settings[key] ELSE default

\* A constructor that keeps the caller's mapping instead of copying it
\* (self.type_converters = settings['type_converters']).
ConverterInit_alias(ds, cs, settings) ==
  IF "type_converters" \in DOMAIN settings
  THEN [dicts |-> ds,
        converters |-> Append(cs,
          [convert_key |-> SettingsGet(settings, "key_converter", "to_camelcase"),
           str_fallback |-> SettingsGet(settings, "str_fallback", TRUE),
           type_converters |-> settings["type_converters"]])]
  ELSE [dicts |-> Append(ds, [owner |-> "converter", map |-> EmptyDict]),
        converters |-> Append(cs,
          [convert_key |-> SettingsGet(settings, "key_converter", "to_camelcase"),
           str_fallback |-> SettingsGet(settings, "str_fallback", TRUE),
           type_converters |-> Len(ds) + 1])]

\* Converter.__init__(**settings) on the heap <<ds, cs>>: the heap with the
\* new instance and its own, freshly created registry dict.
ConverterInit(ds, cs, settings) ==
  LET own == Len(ds) + 1
      fresh == Append(ds, [owner |-> "converter", map |-> EmptyDict])
      filled == IF "type_converters" \in DOMAIN settings
                THEN [fresh EXCEPT ![own].map =
                        DictUpdate(@, ds[settings["type_converters"]].map)]
                ELSE fresh
  IN [dicts |-> filled,
      converters |-> Append(cs,
        [convert_key |-> SettingsGet(settings, "key_converter", "to_camelcase"),
         str_fallback |-> SettingsGet(settings, "str_fallback", TRUE),
         type_converters |-> own])]

\* The dict literal of default_converter().
DefaultTypeConverters ==
  [t \in {"date", "datetime"} |->
     IF t = "date" THEN "date.isoformat" ELSE "datetime.isoformat"]

\* default_converter() on the heap <<ds, cs>>.
default_converter(ds, cs) ==
  ConverterInit(Append(ds, [owner |-> "caller", map |-> DefaultTypeConverters]),
                cs, [type_converters |-> Len(ds) + 1])

\* DEFAULT_CONVERTER = default_converter(), the first object the module makes.
DEFAULT_CONVERTER == 1

\* A lookup that follows the method resolution order (isinstance-style
\* dispatch): the first class of type(value)'s MRO that is registered.
LookupType_mro(registry, value) ==
  LET mro == MRO(TypeOf(value))
      hits == {i \in 1..Len(mro) : mro[i] \in DOMAIN registry}
  IN IF hits = {} THEN NoType
     ELSE mro[CHOOSE i \in hits : \A j \in hits : i <= j]

\* val_type = type(value); val_type in self.type_converters
LookupType(registry, value) ==
  IF TypeOf(value) \in DOMAIN registry THEN TypeOf(value) ELSE NoType

\* A dispatch that lets the JSON-safe passthrough win over the registry.
ConvertValue_safe_first(self, value) ==
  LET registry == RegistryOf(self)
      val_type == LookupType(registry, value)
  IN IF \E cls \in JSON_SAFE_TYPES.types : IsSubclass(TypeOf(value), cls)
     THEN Return(value)
     ELSE IF val_type # NoType
     THEN [Call(registry[val_type], value) EXCEPT !.applied = registry[val_type]]
     ELSE IF converters[self].str_fallback
     THEN Return(PyStr(Str(value)))
     ELSE Return(value)

\* Converter.convert_value(self, value)
ConvertValue(self, value) ==
  LET registry == RegistryOf(self)
      val_type == LookupType(registry, value)
  IN IF val_type # NoType
     THEN [Call(registry[val_type], value) EXCEPT !.applied = registry[val_type]]
     ELSE IF ~converters[self].str_fallback
     THEN Return(value)
     ELSE LET safe == IsInstance(value, JSON_SAFE_TYPES)
          IN IF safe.kind = "raise" THEN safe
             ELSE IF ~Truth(safe.value)
             THEN Return(PyStr(Str(value)))
             ELSE Return(value)

\* self.convert_key(attr)
CallKey(fn, attr) ==
  CASE fn = "to_camelcase" -> [kind |-> "return", exc |-> "", key |-> to_camelcase(attr)]
    [] fn = "const"        -> [kind |-> "return", exc |-> "", key |-> <<"k">>]
    [] fn = "raiser"       -> [kind |-> "raise", exc |-> "ValueError", key |-> <<>>]

\* The prefix of the attributes Converter.__call__ skips.
SA_PREFIX == <<"_", "s", "a", "_">>

\* getattr(record, attr): the value, or the error of a property that raises.
GetAttr(record, i) ==
  IF record[i].raises THEN Raise("AttributeError") ELSE Return(record[i].value)

ConvertReturn(result) == [kind |-> "return", exc |-> "", mapping |-> result]
ConvertRaise(exc) == [kind |-> "raise", exc |-> exc, mapping |-> EmptyDict]

\* The loop of Converter.__call__ from attribute i on.  The right-hand side
\* of the assignment is evaluated before the subscript: getattr, then
\* convert_value, then convert_key.
RECURSIVE ConvertFrom(_, _, _, _)
ConvertFrom(self, record, i, result) ==
  IF i > Len(record) THEN ConvertReturn(result)
  ELSE IF StartsWith(record[i].name, SA_PREFIX)
  THEN ConvertFrom(self, record, i + 1, result)
  ELSE LET got == GetAttr(record, i)
       IN IF got.kind = "raise" THEN ConvertRaise(got.exc)
          ELSE LET val == ConvertValue(self, got.value)
               IN IF val.kind = "raise" THEN ConvertRaise(val.exc)
                  ELSE LET key == CallKey(converters[self].convert_key, record[i].name)
                       IN IF key.kind = "raise" THEN ConvertRaise(key.exc)
                          ELSE ConvertFrom(self, record, i + 1,
                                           DictSet(result, key.key, val.value))

\* Converter.__call__(self, record)
Convert(self, record) == ConvertFrom(self, record, 1, EmptyDict)

\* A registration that keeps an entry the type already has
\* (self.type_converters.setdefault(type_, converter)).
AddTypeConverterOp_setdefault(ds, cs, self, type_, converter) ==
  [ds EXCEPT ![cs[self].type_converters].map =
     IF type_ \in DOMAIN @ THEN @ ELSE DictSet(@, type_, converter)]

\* Converter.add_type_converter(self, type_, converter): the dicts after it.
AddTypeConverterOp(ds, cs, self, type_, converter) ==
  [ds EXCEPT ![cs[self].type_converters].map = DictSet(@, type_, converter)]

----------------------------------------------------------------------------
(* Inputs.                                                                 *)

n_user_id    == <<"u","s","e","r","_","i","d">>
n_created_at == <<"c","r","e","a","t","e","d","_","a","t">>
n_updated_at == <<"u","p","d","a","t","e","d","_","a","t">>
n_sa_state   == <<"_","s","a","_","i","n","s","t","a","n","c","e","_","s","t","a","t","e">>
n_private    == <<"_","p","r","i","v","a","t","e">>
n_name       == <<"n","a","m","e">>
n_a_b        == <<"a","_","b">>
n_aB         == <<"a","B">>
n_a_b_c      == <<"a","_","b","_","c">>

\* The values convert_value is called with.
Values ==
  { None, PyInt(5), PyInt(0 - 12), PyBool(TRUE), PyBool(FALSE), PyFloat(1, 5),
    PyStr(<<"a","b">>), PyUnicode(<<"a","b">>), PyList, PyDict,
    PyDate(2020, 1, 1), PyDatetime(2020, 1, 1, 9, 5, 0, 0),
    PyDatetime(2020, 1, 1, 9, 5, 0, 70), PyDecimal(1, 5), PyObject }

\* One instance attribute: its name, its value, and whether reading it raises.
Attr(name, value) == [name |-> name, value |-> value, raises |-> FALSE]

\* The records Converter.__call__ is called with, as vars(record) lists them.
Records ==
  { <<>>,
    <<Attr(n_user_id, PyInt(5)), Attr(n_created_at, PyDate(2020, 1, 1)),
      Attr(n_sa_state, PyObject)>>,
    <<Attr(n_created_at, PyDate(2020, 1, 1)),
      Attr(n_updated_at, PyDatetime(2020, 1, 1, 9, 5, 0, 0))>>,
    <<Attr(n_sa_state, PyObject), Attr(n_created_at, PyDate(2020, 1, 1))>>,
    <<Attr(n_name, PyStr(<<"a","b">>))>>,
    <<Attr(n_a_b, PyInt(5)), Attr(n_aB, PyInt(0 - 12))>>,
    <<Attr(n_private, PyDecimal(1, 5)), Attr(n_name, PyBool(TRUE))>>,
    <<Attr(n_name, PyInt(5)),
      [name |-> n_user_id, value |-> None, raises |-> TRUE]>> }

\* The characters of the generated inputs of to_camelcase.
Alphabet == {"a", "b", "_", "A", "1"}

\* All texts over Alphabet of length at most MaxLen.
Texts == UNION {[1..n -> Alphabet] : n \in 0..MaxLen}

\* The inputs of to_camelcase: the generated texts and the attribute names.
Varnames ==
  Texts \cup {n_user_id, n_created_at, n_sa_state, n_private, n_name, n_a_b_c}

\* The keyword arguments Converter(...) is called with, but type_converters.
PlainSettings ==
  { [x \in {} |-> TRUE] }
    \cup { [str_fallback |-> b] : b \in BOOLEAN }
    \cup { [key_converter |-> k] : k \in KeyFns }
    \cup { [key_converter |-> k, str_fallback |-> FALSE] : k \in KeyFns }

\* The mappings callers pass as type_converters.
CallerMaps ==
  { [t \in {"int"} |-> "str"], DefaultTypeConverters }

----------------------------------------------------------------------------
(* The state machine.  last is the latest call: its operation, arguments   *)
(* and outcome.                                                            *)

NoCall ==
  [op |-> "import", self |-> NoRef, type_ |-> NoType, fn |-> "", value |-> None,
   record |-> <<>>, varname |-> <<>>, out |-> Return(None),
   mapping |-> EmptyDict, key |-> <<>>]

Unattached ==
  [attached |-> FALSE, by_default |-> FALSE, to_dict |-> NoRef,
   to_json |-> FALSE, json_hook |-> FALSE]

\* The module after import: DEFAULT_CONVERTER exists, nothing is attached.
InitImport ==
  LET h == default_converter(<<>>, <<>>)
  IN /\ dicts = h.dicts
     /\ converters = h.converters
     /\ bases = [b \in Bases |-> Unattached]
     /\ nadds = 0
     /\ last = NoCall

\* One Converter under test: default_converter(), Converter(**settings), or
\* Converter(type_converters=m, **settings).
InitOne ==
  /\ \E h \in {default_converter(<<>>, <<>>)}
          \cup {ConverterInit(<<>>, <<>>, st) : st \in PlainSettings}
          \cup {ConverterInit(<<[owner |-> "caller", map |-> m]>>, <<>>,
                              [type_converters |-> 1, str_fallback |-> FALSE])
                  : m \in CallerMaps} :
       /\ dicts = h.dicts
       /\ converters = h.converters
  /\ bases = [b \in Bases |-> Unattached]
  /\ nadds = 0
  /\ last = NoCall

\* converter.add_type_converter(type_, fn)
AddTypeConverter(self, type_, fn) ==
  /\ nadds < MaxAdds
  /\ dicts' = AddTypeConverterOp(dicts, converters, self, type_, fn)
  /\ nadds' = nadds + 1
  /\ last' = [NoCall EXCEPT !.op = "add_type_converter", !.self = self,
                            !.type_ = type_, !.fn = fn]
  /\ UNCHANGED <<converters, bases>>

\* converter.convert_value(value)
ConvertValueCall(self, value) ==
  /\ last' = [NoCall EXCEPT !.op = "convert_value", !.self = self,
                            !.value = value, !.out = ConvertValue(self, value)]
  /\ UNCHANGED <<dicts, converters, bases, nadds>>

\* converter(record)
ConvertCall(self, record) ==
  /\ LET res == Convert(self, record)
     IN last' = [NoCall EXCEPT !.op = "convert", !.self = self, !.record = record,
                   !.out = IF res.kind = "raise" THEN Raise(res.exc) ELSE Return(None),
                   !.mapping = res.mapping]
  /\ UNCHANGED <<dicts, converters, bases, nadds>>

\* to_camelcase(varname)
ToCamelcaseCall(varname) ==
  /\ last' = [NoCall EXCEPT !.op = "to_camelcase", !.varname = varname,
                            !.key = to_camelcase(varname)]
  /\ UNCHANGED <<dicts, converters, bases, nadds>>

\* c = Converter(**settings), or Converter(type_converters=m, **settings)
\* with m a mapping the caller made (tc is "none" or "given").
Construct(settings, tc, m) ==
  /\ Len(converters) < MaxConverters
  /\ LET h == IF tc = "given"
              THEN ConverterInit(Append(dicts, [owner |-> "caller", map |-> m]),
                                 converters,
                                 [x \in (DOMAIN settings) \cup {"type_converters"} |->
                                    IF x = "type_converters" THEN Len(dicts) + 1
                                    ELSE settings[x]])
              ELSE ConverterInit(dicts, converters, settings)
     IN /\ dicts' = h.dicts
        /\ converters' = h.converters
        /\ last' = [NoCall EXCEPT !.op = "Converter", !.self = Len(h.converters)]
  /\ UNCHANGED <<bases, nadds>>

\* c = default_converter()
DefaultConverterCall ==
  /\ Len(converters) < MaxConverters
  /\ LET h == default_converter(dicts, converters)
     IN /\ dicts' = h.dicts
        /\ converters' = h.converters
        /\ last' = [NoCall EXCEPT !.op = "default_converter", !.self = Len(h.converters)]
  /\ UNCHANGED <<bases, nadds>>

\* The module-level add_type_converter(type_, converter)
ModuleAddTypeConverter(type_, fn) ==
  /\ nadds < MaxAdds
  /\ dicts' = AddTypeConverterOp(dicts, converters, DEFAULT_CONVERTER, type_, fn)
  /\ nadds' = nadds + 1
  /\ last' = [NoCall EXCEPT !.op = "module_add_type_converter", !.type_ = type_,
                            !.fn = fn]
  /\ UNCHANGED <<converters, bases>>

\* if converter is None: converter = DEFAULT_CONVERTER
AttachTarget(cs, converter) ==
  IF converter = NoRef THEN DEFAULT_CONVERTER ELSE converter

\* add_json_converter(declarative_base, pyramid, converter): the methods of
\* the base afterwards.  __json__ is installed only when pyramid is set, and
\* an earlier one is not removed.
AddJsonConverterOp(bs, cs, base, pyramid, converter) ==
  [bs EXCEPT ![base] =
     [attached |-> TRUE,
      by_default |-> (converter = NoRef),
      to_dict |-> AttachTarget(cs, converter),
      to_json |-> TRUE,
      json_hook |-> (pyramid \/ @.json_hook)]]

AddJsonConverter(base, pyramid, converter) ==
  /\ bases' = AddJsonConverterOp(bases, converters, base, pyramid, converter)
  /\ last' = [NoCall EXCEPT !.op = "add_json_converter", !.self = converter]
  /\ UNCHANGED <<dicts, converters, nadds>>

\* record.to_dict() on a record of an attached base: converter(self)
ToDict(base, record) ==
  /\ bases[base].attached
  /\ bases[base].to_dict \in 1..Len(converters)
  /\ LET res == Convert(bases[base].to_dict, record)
     IN last' = [NoCall EXCEPT !.op = "to_dict", !.self = bases[base].to_dict,
                   !.record = record,
                   !.out = IF res.kind = "raise" THEN Raise(res.exc) ELSE Return(None),
                   !.mapping = res.mapping]
  /\ UNCHANGED <<dicts, converters, bases, nadds>>

Selves == 1..Len(converters)

Init == InitOne

Next ==
  \/ \E self \in Selves, t \in RegTypes, fn \in Fns : AddTypeConverter(self, t, fn)
  \/ \E self \in Selves, value \in Values : ConvertValueCall(self, value)
  \/ \E self \in Selves, record \in Records : ConvertCall(self, record)

Spec == Init /\ [][Next]_vars

InitCamel == InitImport

NextCamel == \E varname \in Varnames : ToCamelcaseCall(varname)

SpecCamel == InitCamel /\ [][NextCamel]_vars

\* The types and functions registered while several converters are alive.
SharedTypes == {"int", "date"}
SharedFns == {"str", "raiser"}

\* The records to_dict is called on.
SharedRecords ==
  { <<Attr(n_created_at, PyDate(2020, 1, 1))>>,
    <<Attr(n_user_id, PyInt(5))>> }

InitReg == InitImport

NextReg ==
  \/ \E b \in BOOLEAN : Construct([str_fallback |-> b], "none", EmptyDict)
  \/ \E m \in CallerMaps : Construct([x \in {} |-> TRUE], "given", m)
  \/ DefaultConverterCall
  \/ \E self \in Selves, t \in SharedTypes, fn \in SharedFns :
       AddTypeConverter(self, t, fn)
  \/ \E t \in SharedTypes, fn \in SharedFns : ModuleAddTypeConverter(t, fn)
  \/ \E base \in Bases, pyramid \in BOOLEAN, converter \in {NoRef} \cup Selves :
       AddJsonConverter(base, pyramid, converter)
  \/ \E base \in Bases, record \in SharedRecords : ToDict(base, record)

SpecReg == InitReg /\ [][NextReg]_vars

----------------------------------------------------------------------------
(* Vocabulary of the properties.                                           *)

\* The registry of converter `self` on the heap <<ds, cs>>.
RegistryIn(ds, cs, self) == ds[cs[self].type_converters].map

\* The latest call was convert_value on a value of an unregistered type.
UnregisteredValueCall ==
  /\ last.op = "convert_value"
  /\ TypeOf(last.value) \notin DOMAIN RegistryOf(last.self)

\* The JSON-safe base types: None, list, dict, int, float and the strings.
SafeBaseTypes == {"NoneType", "list", "dict", "int", "float", "str", "unicode"}

\* The attributes of a record that do not carry the internal prefix.
PublicAttrs(record) == SelectSeq(record, LAMBDA a : ~StartsWith(a.name, SA_PREFIX))

\* Nothing the record or the configuration supplies raises during
\* converter(record): no attribute read, not the key converter, and no
\* registered converter on a public attribute.
NothingSuppliedRaises(self, record) ==
  /\ converters[self].convert_key # "raiser"
  /\ \A i \in 1..Len(PublicAttrs(record)) :
       LET a == PublicAttrs(record)[i]
       IN /\ ~a.raises
          /\ TypeOf(a.value) \in DOMAIN RegistryOf(self) =>
               Call(RegistryOf(self)[TypeOf(a.value)], a.value).kind = "return"

\* self.convert_key(name), for a key converter that returns
KeyOf(self, name) == CallKey(converters[self].convert_key, name).key

\* The record of the scenario: user_id, created_at and an internal attribute.
ScenarioRecord ==
  <<Attr(n_user_id, PyInt(5)), Attr(n_created_at, PyDate(2020, 1, 1)),
    Attr(n_sa_state, PyObject)>>

\* {"userId": 5, "createdAt": "2020-01-01"}
ScenarioOutput ==
  DictSet(DictSet(EmptyDict, <<"u","s","e","r","I","d">>, PyInt(5)),
          <<"c","r","e","a","t","e","d","A","t">>,
          PyStr(<<"2","0","2","0","-","0","1","-","0","1">>))

\* A converter configured as default_converter() makes it.
IsDefaultConfigured(self) ==
  /\ converters[self].convert_key = "to_camelcase"
  /\ converters[self].str_fallback
  /\ RegistryOf(self) = DefaultTypeConverters

----------------------------------------------------------------------------
(* Dispatch of convert_value.                                              *)

\* C1: when the exact type of the value is a key of the registry,
\* convert_value returns what the registered converter returns (or raises
\* what it raises), whatever str_fallback is and also for JSON-safe types.
C1_RegisteredConverterWins ==
  (last.op = "convert_value" /\ TypeOf(last.value) \in DOMAIN RegistryOf(last.self)) =>
    LET fn == RegistryOf(last.self)[TypeOf(last.value)]
    IN /\ last.out.kind = Call(fn, last.value).kind
       /\ last.out.exc = Call(fn, last.value).exc
       /\ last.out.value = Call(fn, last.value).value

\* C1 witness: a converter registered for int overrode the passthrough of 5.
C1_Witness ==
  /\ last.op = "convert_value"
  /\ last.value = PyInt(5)
  /\ "int" \in DOMAIN RegistryOf(last.self)
  /\ RegistryOf(last.self)["int"] = "str"
  /\ last.out = [Return(PyStr(<<"5">>)) EXCEPT !.applied = "str"]

\* C2: a value of a JSON-safe base type with no converter registered for
\* its exact type is returned unchanged, with str_fallback on or off.
C2_SafeValuePassesThrough ==
  (UnregisteredValueCall /\ TypeOf(last.value) \in SafeBaseTypes) =>
    last.out = Return(last.value)

\* C3: a value whose exact type is neither registered nor JSON-safe is
\* returned as str(value) with str_fallback on and unchanged with it off.
C3_FallbackPolicy ==
  (UnregisteredValueCall /\ TypeOf(last.value) \notin SafeBaseTypes) =>
    last.out = IF converters[last.self].str_fallback
               THEN Return(PyStr(Str(last.value)))
               ELSE Return(last.value)

\* C4: dispatch is by exact type.  A value whose type is not registered has
\* no registered converter applied to it, also when a base class of its
\* type is registered, and with str_fallback off it is returned unchanged;
\* a value whose type is registered gets the converter of that exact type.
C4_ExactTypeDispatch ==
  /\ UnregisteredValueCall =>
       /\ last.out.applied = ""
       /\ ~converters[last.self].str_fallback => last.out = Return(last.value)
  /\ (last.op = "convert_value"
        /\ TypeOf(last.value) \in DOMAIN RegistryOf(last.self)) =>
       last.out.applied = RegistryOf(last.self)[TypeOf(last.value)]

\* C4 witness: int is registered, bool is not, and True came back unchanged
\* although str, int's converter, would have made it "True".
C4_Witness ==
  /\ last.op = "convert_value"
  /\ last.value = PyBool(TRUE)
  /\ DOMAIN RegistryOf(last.self) = {"int"}
  /\ RegistryOf(last.self)["int"] = "str"
  /\ last.out = Return(PyBool(TRUE))

\* C7: nothing raises in the core.  convert_value returns whenever the
\* registered converter of the value's type (if any) returns, and
\* converter(record) raises only when an attribute read, the key converter
\* or a registered converter raises.
C7_NoExceptionFromCore ==
  /\ (last.op = "convert_value"
        /\ (TypeOf(last.value) \in DOMAIN RegistryOf(last.self) =>
              Call(RegistryOf(last.self)[TypeOf(last.value)], last.value).kind
                = "return")) =>
       last.out.kind = "return"
  /\ (last.op = "convert" /\ NothingSuppliedRaises(last.self, last.record)) =>
       last.out.kind = "return"

----------------------------------------------------------------------------
(* Converter.__call__.                                                     *)

\* The key converter gives the attributes of the record distinct keys.
DistinctKeys(self, record) ==
  \A i, j \in 1..Len(record) :
    KeyOf(self, record[i].name) = KeyOf(self, record[j].name) => i = j

\* C5: for a record without internal attributes, converter(record) has one
\* key per attribute: as many keys as attributes, each key_converter(name),
\* mapped to convert_value of the attribute's value.  The claim is read in
\* its favour: it is asked only of records whose attributes get distinct
\* keys (two attributes with one key can only share an entry) and of calls
\* in which nothing the caller supplies raises.
C5_OneKeyPerAttribute ==
  (/\ last.op = "convert"
   /\ PublicAttrs(last.record) = last.record
   /\ NothingSuppliedRaises(last.self, last.record)
   /\ DistinctKeys(last.self, last.record)) =>
    /\ last.out.kind = "return"
    /\ Cardinality(DOMAIN last.mapping) = Len(last.record)
    /\ \A i \in 1..Len(last.record) :
         /\ KeyOf(last.self, last.record[i].name) \in DOMAIN last.mapping
         /\ last.mapping[KeyOf(last.self, last.record[i].name)]
              = ConvertValue(last.self, last.record[i].value).value

\* C6: converter(record) drops exactly the attributes whose name starts
\* with '_sa_': the keys are those of the other attributes; and the default
\* converter turns the scenario record into
\* {"userId": 5, "createdAt": "2020-01-01"}.
C6_InternalAttributesDropped ==
  (last.op = "convert" /\ NothingSuppliedRaises(last.self, last.record)) =>
    /\ last.out.kind = "return"
    /\ DOMAIN last.mapping =
         { KeyOf(last.self, PublicAttrs(last.record)[i].name) :
             i \in 1..Len(PublicAttrs(last.record)) }
    /\ (IsDefaultConfigured(last.self) /\ last.record = ScenarioRecord) =>
         last.mapping = ScenarioOutput

----------------------------------------------------------------------------
(* The registry.                                                           *)

\* C8: add_type_converter(type_, fn) sets the entry of type_ to fn, adding
\* it or replacing the one before, leaves the entries of all other types as
\* they were, and changes nothing when the same registration is repeated.
C8_LatestRegistrationWins ==
  [][ last'.op = "add_type_converter" =>
        LET old == RegistryIn(dicts, converters, last'.self)
            new == RegistryIn(dicts', converters', last'.self)
        IN /\ DOMAIN new = (DOMAIN old) \cup {last'.type_}
           /\ new[last'.type_] = last'.fn
           /\ \A t \in (DOMAIN old) \ {last'.type_} : new[t] = old[t]
           /\ (last'.type_ \in DOMAIN old /\ old[last'.type_] = last'.fn) =>
                new = old
    ]_vars

\* C8 witness: the converter was built by default_converter(), and a second
\* registration for date replaced the one a first registration had put in
\* place of date.isoformat.
C8_Witness ==
  /\ last.op = "add_type_converter"
  /\ nadds = 2
  /\ dicts[1].map = DefaultTypeConverters
  /\ DOMAIN RegistryOf(last.self) = {"date", "datetime"}
  /\ last.type_ = "date"
  /\ last.fn = "raiser"
  /\ RegistryOf(last.self)["date"] = "raiser"
  /\ RegistryOf(last.self)["datetime"] = "datetime.isoformat"

\* C10: registries are isolated.  A registry changes only by a registration
\* on its own converter (the module-level one registers on
\* DEFAULT_CONVERTER); no call changes a mapping a caller passed to a
\* constructor; default_converter() returns a converter with the shipped
\* registry whatever was registered before; and a base attached without a
\* converter uses DEFAULT_CONVERTER's registry.
C10_RegistriesIsolated ==
  [][ /\ \A c \in 1..Len(converters) :
           RegistryIn(dicts', converters', c) # RegistryIn(dicts, converters, c) =>
             \/ last'.op = "add_type_converter" /\ last'.self = c
             \/ last'.op = "module_add_type_converter" /\ c = DEFAULT_CONVERTER
      /\ \A d \in 1..Len(dicts) :
           dicts[d].owner = "caller" => dicts'[d] = dicts[d]
      /\ last'.op = "module_add_type_converter" =>
           RegistryIn(dicts', converters', DEFAULT_CONVERTER)[last'.type_] = last'.fn
      /\ last'.op = "add_type_converter" =>
           RegistryIn(dicts', converters', last'.self)[last'.type_] = last'.fn
      /\ last'.op = "default_converter" =>
           RegistryIn(dicts', converters', last'.self) = DefaultTypeConverters
      /\ \A b \in Bases :
           bases'[b].by_default =>
             /\ converters'[bases'[b].to_dict].type_converters
                  = converters'[DEFAULT_CONVERTER].type_converters
             /\ last'.op = "to_dict" =>
                  last'.mapping = Convert(DEFAULT_CONVERTER, last'.record).mapping
    ]_vars

\* C10 witness: the default converter's registry was changed, a second
\* converter built from a caller's mapping was changed too, the caller's
\* mapping is as it was passed, and a base is attached without a converter.
C10_Witness ==
  /\ Len(converters) = 2
  /\ Len(dicts) = 4
  /\ RegistryOf(DEFAULT_CONVERTER) # DefaultTypeConverters
  /\ dicts[3].owner = "caller"
  /\ dicts[3].map \in CallerMaps
  /\ converters[2].type_converters = 4
  /\ dicts[4].map # dicts[3].map
  /\ bases["Base"].by_default

----------------------------------------------------------------------------
(* to_camelcase.                                                           *)

\* The positions of the underscores that a lowercase letter follows.
Matches(s) == {i \in 1..Len(s) : s[i] = "_" /\ i < Len(s) /\ IsLower(s[i + 1])}

\* The leading underscores of s: every character up to them is an underscore.
Leading(s) == {i \in 1..Len(s) : \A j \in 1..i : s[j] = "_"}

\* s with the underscores at the positions M removed and the character
\* after each of them in upper case, from position i on.
RECURSIVE Collapse(_, _, _)
Collapse(s, M, i) ==
  IF i > Len(s) THEN <<>>
  ELSE (IF i \in M THEN <<>>
        ELSE IF (i - 1) \in M THEN <<ToUpper(s[i])>>
        ELSE <<s[i]>>) \o Collapse(s, M, i + 1)

\* C9 as stated: every underscore followed by a lowercase letter is
\* collapsed, except that leading underscores stay as they are, so that
\* "_private" stays "_private".
C9_SpecTransform ==
  last.op = "to_camelcase" =>
    /\ last.key = Collapse(last.varname, Matches(last.varname) \ Leading(last.varname), 1)
    /\ last.varname = n_private => last.key = n_private

\* C9 amended: every underscore followed by a lowercase letter is collapsed,
\* a leading one too; all other characters stay.  "created_at" gives
\* "createdAt", "a_b_c" gives "aBC", "name" gives "name" and "_private"
\* gives "Private".
C9_CamelcaseTransform ==
  last.op = "to_camelcase" =>
    /\ last.key = Collapse(last.varname, Matches(last.varname), 1)
    /\ last.varname = n_created_at =>
         last.key = <<"c","r","e","a","t","e","d","A","t">>
    /\ last.varname = n_user_id => last.key = <<"u","s","e","r","I","d">>
    /\ last.varname = n_a_b_c => last.key = <<"a","B","C">>
    /\ last.varname = n_name => last.key = n_name
    /\ last.varname = n_private => last.key = <<"P","r","i","v","a","t","e">>

\* C9 witness: a name with a leading underscore was transformed.
C9_Witness ==
  /\ last.op = "to_camelcase"
  /\ last.varname = n_private
  /\ last.key = <<"P","r","i","v","a","t","e">>

====
